---- MODULE Spec2Model ----
(***************************************************************************)
(* A model of mygunzip: gunzip.py (the decompressor) and the two          *)
(* functions of dump.py that differ from it (construct_huffman and the    *)
(* back-reference copy of inflate).                                        *)
(*                                                                         *)
(* The input file is a sequence of bytes, gz.  The generator              *)
(* bitstream(gz) is the pair (pos, eof): pos bits have been taken, and    *)
(* eof says that the generator has finished (a read found no bit left).   *)
(* Python's None is the value None below; an uncaught exception or a      *)
(* sys.exit ends the run in pc = "raised" with its name in error.         *)
(***************************************************************************)
EXTENDS Integers, Sequences, FiniteSets, TLC

VARIABLES
  gz,                 \* the bytes of the input file (gunzip.py:215)
  pos,                \* bits taken from the generator `stream` so far
  eof,                \* the generator `stream` has finished
  pc,                 \* where the run stands
  gz_header,          \* GzipHeader (flg, xlen, fname, comment, crc)
  def_header,         \* DeflateHeader (bfinal, btype, hlit, hdist, hclen)
  huf_code,           \* Huffman code of the code-length alphabet
  litlen_codelengths, \* the list decode_codelengths builds, first call
  dist_codelengths,   \* the list decode_codelengths builds, second call
  litlen_huf_code,    \* literal/length Huffman code
  dist_huf_code,      \* distance Huffman code
  uncompressed_data,  \* the output buffer of inflate
  outfile,            \* the output file: times opened, its name, its bytes
  error,              \* the exception that ended the run, "" if none
  call,               \* arguments of a function called on its own
  ret                 \* what that function returned

vars == <<gz, pos, eof, pc, gz_header, def_header, huf_code,
          litlen_codelengths, dist_codelengths, litlen_huf_code,
          dist_huf_code, uncompressed_data, outfile, error, call, ret>>

(***************************************************************************)
(* Program constants.                                                      *)
(***************************************************************************)
None == -1

rle_alphabet == <<16, 17, 18, 0, 8, 7, 9, 6, 10, 5, 11, 4, 12, 3, 13, 2, 14, 1, 15>>

length_extra_bits ==
  <<0, 0, 0, 0, 0, 0, 0, 0, 1, 1, 1, 1, 2, 2, 2, 2, 3, 3, 3, 3, 4, 4, 4, 4,
    5, 5, 5, 5, 0>>

distance_extra_bits ==
  <<0, 0, 0, 0, 1, 1, 2, 2, 3, 3, 4, 4, 5, 5, 6, 6, 7, 7, 8, 8, 9, 9, 10, 10,
    11, 11, 12, 12, 13, 13>>

length_offset ==
  <<3, 4, 5, 6, 7, 8, 9, 10, 11, 13, 15, 17, 19, 23, 27, 31, 35, 43, 51, 59,
    67, 83, 99, 115, 131, 163, 195, 227, 258>>

distance_offset ==
  <<1, 2, 3, 4, 5, 7, 9, 13, 17, 25, 33, 49, 65, 97, 129, 193, 257, 385, 513,
    769, 1025, 1537, 2049, 3073, 4097, 6145, 8193, 12289, 16385, 24577>>

\* range(n) as a list
range(n) == [i \in 1..n |-> i - 1]

\* n * [v]
repeat(v, n) == [i \in 1..n |-> v]

fixed_huf_codelengths ==
  repeat(8, 144) \o repeat(9, 112) \o repeat(7, 24) \o repeat(8, 8)

fixed_litlen_alphabet == range(288)

NO_COMPRESSION == 0
FIXED == 1
DYNAMIC == 2

FHCRC == 2
FEXTRA == 4
FNAME == 8
FCOMMENT == 16

\* flg & FLAG, for a FLAG that is one bit
flag_set(flg, FLAG) == (flg \div FLAG) % 2 = 1

(***************************************************************************)
(* The bit stream.                                                         *)
(***************************************************************************)
RECURSIVE pow2(_)
pow2(n) == IF n = 0 THEN 1 ELSE 2 * pow2(n - 1)

\* bits the generator bitstream(buffer) yields in all
nbits(buffer) == 8 * Len(buffer)

\* the k-th bit (from 0) that bitstream(buffer) yields: bytes in order, each
\* byte from its least significant bit
bitstream(buffer, k) == (buffer[(k \div 8) + 1] \div pow2(k % 8)) % 2

\* sum of bit_i << i over the bits at p .. p+count-1
RECURSIVE assemble_lsb(_, _, _)
assemble_lsb(buffer, p, count) ==
  IF count = 0 THEN 0
  ELSE bitstream(buffer, p) + 2 * assemble_lsb(buffer, p + 1, count - 1)

\* to_number(stream, count) with the stream at (p, e): the number, the
\* stream after it, and the exception raised when next(it) inside take
\* finds the stream finished (a StopIteration in a generator is a
\* RuntimeError)
to_number(buffer, p, e, count) ==
  IF count = 0 THEN [exc |-> "", val |-> 0, pos |-> p, eof |-> e]
  ELSE IF p + count > nbits(buffer)
  THEN [exc |-> "RuntimeError", val |-> None, pos |-> nbits(buffer), eof |-> TRUE]
  ELSE [exc |-> "", val |-> assemble_lsb(buffer, p, count), pos |-> p + count,
        eof |-> e]

(***************************************************************************)
(* Huffman codes.  A code is a dict from (length, value) to a character:  *)
(* a function on a set of pairs.                                           *)
(***************************************************************************)
Max(S) == CHOOSE x \in S : \A y \in S : y <= x
Min2(a, b) == IF a < b THEN a ELSE b

\* `if length:` of a code length (0 and None are false)
truthy(length) == length # 0 /\ length # None

\* zip(alphabet, code_lengths) stops at the shorter of the two
zip_len(alphabet, code_lengths) == Min2(Len(alphabet), Len(code_lengths))

\* char_by_code_len[length]: the characters zip pairs with that length, in
\* the alphabet's order
chars_of_len(alphabet, code_lengths, length) ==
  LET n == zip_len(alphabet, code_lengths)
      idx == SelectSeq([i \in 1..n |-> i], LAMBDA i : code_lengths[i] = length)
  IN [k \in 1..Len(idx) |-> alphabet[idx[k]]]

\* the keys of char_by_code_len
used_lengths(alphabet, code_lengths) ==
  {code_lengths[i] : i \in {j \in 1..zip_len(alphabet, code_lengths) :
                                  truthy(code_lengths[j])}}

sorted(s) == SortSeq(s, LAMBDA a, b : a < b)

\* the dict entries one length adds, with enumerate counting from 1
codes_of_len_from_one(characters, length, min_code) ==
  [key \in {<<length, min_code + i>> : i \in 1..Len(characters)}
     |-> characters[key[2] - min_code]]

\* the dict entries one length adds: (length, min_code + i) -> characters[i]
codes_of_len(characters, length, min_code) ==
  [key \in {<<length, min_code + i - 1>> : i \in 1..Len(characters)}
     |-> characters[key[2] - min_code + 1]]

\* the loop over range(max_bitwidth) of gunzip.py's construct_huffman
RECURSIVE huffman_loop(_, _, _, _, _, _)
huffman_loop(alphabet, code_lengths, length, max_bitwidth, min_code, huffman_code) ==
  IF length = max_bitwidth THEN huffman_code
  ELSE IF length \in used_lengths(alphabet, code_lengths)
  THEN LET characters == sorted(chars_of_len(alphabet, code_lengths, length))
       IN huffman_loop(alphabet, code_lengths, length + 1, max_bitwidth,
                       (min_code + Len(characters)) * 2,
                       codes_of_len(characters, length, min_code) @@ huffman_code)
  ELSE huffman_loop(alphabet, code_lengths, length + 1, max_bitwidth,
                    min_code * 2, huffman_code)

\* the loop of dump.py's construct_huffman: min_code = (min_code + n) << 1
\* for a length in use, min_code <<= 1 otherwise
RECURSIVE dump_huffman_loop(_, _, _, _, _, _)
dump_huffman_loop(alphabet, code_lengths, length, stop, min_code, huffman_code) ==
  IF length = stop THEN huffman_code
  ELSE IF length \in used_lengths(alphabet, code_lengths)
  THEN LET characters == chars_of_len(alphabet, code_lengths, length)
       IN dump_huffman_loop(alphabet, code_lengths, length + 1, stop,
                            (min_code + Len(characters)) * 2,
                            codes_of_len(sorted(characters), length, min_code)
                              @@ huffman_code)
  ELSE dump_huffman_loop(alphabet, code_lengths, length + 1, stop,
                         min_code * 2, huffman_code)

\* dump.py's construct_huffman
dump_construct_huffman(alphabet, code_lengths) ==
  IF used_lengths(alphabet, code_lengths) = {}
  THEN [exc |-> "ValueError", val |-> <<>>]
  ELSE [exc |-> "",
        val |-> dump_huffman_loop(alphabet, code_lengths, 0,
                                  Max(used_lengths(alphabet, code_lengths)) + 1,
                                  0, <<>>)]

\* construct_huffman(alphabet, code_lengths): the dict, or the ValueError
\* of max() of an empty char_by_code_len
construct_huffman(alphabet, code_lengths) ==
  IF used_lengths(alphabet, code_lengths) = {}
  THEN [exc |-> "ValueError", val |-> <<>>]
  ELSE [exc |-> "",
        val |-> huffman_loop(alphabet, code_lengths, 0,
                             Max(used_lengths(alphabet, code_lengths)) + 1,
                             0, <<>>)]

\* the longest key of a code (0 for an empty one)
max_key_len(hufman_code) ==
  IF DOMAIN hufman_code = {} THEN 0
  ELSE Max({key[1] : key \in DOMAIN hufman_code})

\* decode_huf with the prefix assembled like a packed integer: each new bit
\* above the ones before it
RECURSIVE decode_huf_loop_lsb(_, _, _, _, _, _)
decode_huf_loop_lsb(buffer, p, hufman_code, maxlen, count, number) ==
  IF p >= nbits(buffer) \/ count >= maxlen
  THEN [val |-> None, pos |-> nbits(buffer), eof |-> TRUE]
  ELSE LET code == <<count + 1, number + bitstream(buffer, p) * pow2(count)>>
       IN IF code \in DOMAIN hufman_code
          THEN [val |-> hufman_code[code], pos |-> p + 1, eof |-> FALSE]
          ELSE decode_huf_loop_lsb(buffer, p + 1, hufman_code, maxlen,
                                   code[1], code[2])

\* the loop of decode_huf over enumerate(generate_prefixes(stream), start=1):
\* count bits taken, number their value with the earliest bit highest.  No
\* key is longer than maxlen, so past maxlen bits the loop only drains the
\* stream and the value is not followed further.
RECURSIVE decode_huf_loop(_, _, _, _, _, _)
decode_huf_loop(buffer, p, hufman_code, maxlen, count, number) ==
  IF p >= nbits(buffer) \/ count >= maxlen
  THEN [val |-> None, pos |-> nbits(buffer), eof |-> TRUE]
  ELSE LET code == <<count + 1, number * 2 + bitstream(buffer, p)>>
       IN IF code \in DOMAIN hufman_code
          THEN [val |-> hufman_code[code], pos |-> p + 1, eof |-> FALSE]
          ELSE decode_huf_loop(buffer, p + 1, hufman_code, maxlen,
                               code[1], code[2])

\* decode_huf(stream, hufman_code) with the stream at (p, e): the character
\* of the first (count, number) that is a key, or None with the stream
\* finished
decode_huf(buffer, p, e, hufman_code) ==
  IF e THEN [val |-> None, pos |-> p, eof |-> TRUE]
  ELSE decode_huf_loop(buffer, p, hufman_code, max_key_len(hufman_code), 0, 0)

(***************************************************************************)
(* Code lengths: one turn of the while loop of decode_codelengths.         *)
(***************************************************************************)
\* the list `codes` of one turn and the stream after it, or the exception:
\* 16 copies codelengths[-1] (an IndexError on an empty list, raised before
\* the two extra bits are read), 17 and 18 give zeros, any other value
\* (None included) stands for itself
rle_codes(buffer, p, e, huf, codelengths) ==
  LET rle_code == decode_huf(buffer, p, e, huf)
      extra == to_number(buffer, rle_code.pos, rle_code.eof,
                         CASE rle_code.val = 16 -> 2
                           [] rle_code.val = 17 -> 3
                           [] rle_code.val = 18 -> 7
                           [] OTHER -> 0)
  IN CASE rle_code.val = 16 /\ codelengths = <<>> ->
            [exc |-> "IndexError", val |-> <<>>, pos |-> rle_code.pos,
             eof |-> rle_code.eof]
       [] rle_code.val \in {16, 17, 18} /\ extra.exc # "" ->
            [exc |-> extra.exc, val |-> <<>>, pos |-> extra.pos, eof |-> extra.eof]
       [] rle_code.val = 16 /\ codelengths # <<>> /\ extra.exc = "" ->
            [exc |-> "", val |-> repeat(codelengths[Len(codelengths)], extra.val + 3),
             pos |-> extra.pos, eof |-> extra.eof]
       [] rle_code.val = 17 /\ extra.exc = "" ->
            [exc |-> "", val |-> repeat(0, extra.val + 3),
             pos |-> extra.pos, eof |-> extra.eof]
       [] rle_code.val = 18 /\ extra.exc = "" ->
            [exc |-> "", val |-> repeat(0, extra.val + 11),
             pos |-> extra.pos, eof |-> extra.eof]
       [] OTHER ->
            [exc |-> "", val |-> <<rle_code.val>>, pos |-> rle_code.pos,
             eof |-> rle_code.eof]

\* codelengths += codes
decode_codelengths_turn(buffer, p, e, huf, codelengths) ==
  LET codes == rle_codes(buffer, p, e, huf, codelengths)
  IN [codes EXCEPT !.val = IF codes.exc = "" THEN codelengths \o codes.val
                            ELSE codelengths]

(***************************************************************************)
(* inflate: the back-reference copy and one turn of the while loop.        *)
(***************************************************************************)
\* data[-distance:] for distance >= 1: the last `distance` bytes, all of
\* data when it has fewer
last_slice(data, distance) ==
  IF distance >= Len(data) THEN data
  ELSE SubSeq(data, Len(data) - distance + 1, Len(data))

\* for i in range(length): uncompressed_data.append(data_slice[i % distance]).
\* data_slice is a copy made before the loop, so turn i appends
\* data_slice[i % distance]; the first turn whose index is past the slice
\* raises an IndexError, after the appends of the turns before it.
byte_loop(data, data_slice, length, distance) ==
  LET failing == {i \in 0..(length - 1) : i % distance >= Len(data_slice)}
      turns == IF failing = {} THEN length
               ELSE CHOOSE i \in failing : \A j \in failing : i <= j
  IN [exc |-> IF failing = {} THEN "" ELSE "IndexError",
      val |-> data \o [i \in 1..turns |-> data_slice[((i - 1) % distance) + 1]]]

\* the copy as one slice of what the buffer holds before it
copy_match_bulk(data, length, distance) ==
  [exc |-> "",
   val |-> data \o SubSeq(last_slice(data, distance), 1,
                          Min2(length, Len(last_slice(data, distance))))]

\* gunzip.py: inflate the (length, distance) pair
copy_match(data, length, distance) ==
  byte_loop(data, last_slice(data, distance), length, distance)

\* data[-distance:-distance+length] for distance > length >= 0: Python clips
\* a start before the first byte to the first byte
neg_slice(data, distance, length) ==
  LET n == Len(data)
      start == IF n - distance < 0 THEN 0 ELSE n - distance
      stop == IF n - distance + length < 0 THEN 0 ELSE n - distance + length
  IN IF stop <= start THEN <<>> ELSE SubSeq(data, start + 1, stop)

\* dump.py: the byte loop when distance <= length, one slice otherwise
dump_copy_match(data, length, distance) ==
  IF distance <= length
  THEN byte_loop(data, last_slice(data, distance), length, distance)
  ELSE [exc |-> "", val |-> data \o neg_slice(data, distance, length)]

\* a length or distance: extra bits plus the offset of its symbol
\* (index: symbol - 257 for a length, the symbol for a distance)
extra_plus_offset(buffer, p, e, extra_bits, offset, index) ==
  LET extra == to_number(buffer, p, e, extra_bits[index + 1])
  IN [extra EXCEPT !.val = IF extra.exc = "" THEN extra.val + offset[index + 1]
                            ELSE None]

\* the else branch of inflate's loop for symbol > 256: length, distance
\* symbol, distance, copy.  Indexing a list past its end is an IndexError,
\* indexing it with None a TypeError.
inflate_match(buffer, p, e, dist_code, data, symbol) ==
  IF symbol - 257 >= Len(length_extra_bits)
  THEN [exc |-> "IndexError", data |-> data, pos |-> p, eof |-> e, done |-> FALSE]
  ELSE
  LET length == extra_plus_offset(buffer, p, e, length_extra_bits,
                                  length_offset, symbol - 257)
      dist_symbol == decode_huf(buffer, length.pos, length.eof, dist_code)
      dist_ok == length.exc = "" /\ dist_symbol.val # None
                   /\ dist_symbol.val < Len(distance_extra_bits)
      distance == extra_plus_offset(buffer, dist_symbol.pos, dist_symbol.eof,
                                    distance_extra_bits, distance_offset,
                                    dist_symbol.val)
      copied == copy_match(data, length.val, distance.val)
  IN CASE length.exc # "" ->
            [exc |-> length.exc, data |-> data, pos |-> length.pos,
             eof |-> length.eof, done |-> FALSE]
       [] length.exc = "" /\ dist_symbol.val = None ->
            [exc |-> "TypeError", data |-> data, pos |-> dist_symbol.pos,
             eof |-> dist_symbol.eof, done |-> FALSE]
       [] length.exc = "" /\ dist_symbol.val # None
            /\ dist_symbol.val >= Len(distance_extra_bits) ->
            [exc |-> "IndexError", data |-> data, pos |-> dist_symbol.pos,
             eof |-> dist_symbol.eof, done |-> FALSE]
       [] dist_ok /\ distance.exc # "" ->
            [exc |-> distance.exc, data |-> data, pos |-> distance.pos,
             eof |-> distance.eof, done |-> FALSE]
       [] OTHER ->
            [exc |-> copied.exc, data |-> copied.val, pos |-> distance.pos,
             eof |-> distance.eof, done |-> FALSE]

\* one turn of the loop, were the loop to end on None as on 256
inflate_turn_none_ends(buffer, p, e, litlen_code, dist_code, data) ==
  LET symbol == decode_huf(buffer, p, e, litlen_code)
  IN CASE symbol.val = 256 \/ symbol.val = None ->
            [exc |-> "", data |-> data, pos |-> symbol.pos, eof |-> symbol.eof,
             done |-> TRUE]
       [] symbol.val # None /\ symbol.val < 256 ->
            [exc |-> "", data |-> Append(data, symbol.val), pos |-> symbol.pos,
             eof |-> symbol.eof, done |-> FALSE]
       [] OTHER ->
            inflate_match(buffer, symbol.pos, symbol.eof, dist_code, data,
                          symbol.val)

\* one turn of `while (symbol := decode_huf(...)) != 256`: done at 256; a
\* None symbol fails the comparison symbol < 257 with a TypeError
inflate_turn(buffer, p, e, litlen_code, dist_code, data) ==
  LET symbol == decode_huf(buffer, p, e, litlen_code)
  IN CASE symbol.val = 256 ->
            [exc |-> "", data |-> data, pos |-> symbol.pos, eof |-> symbol.eof,
             done |-> TRUE]
       [] symbol.val = None ->
            [exc |-> "TypeError", data |-> data, pos |-> symbol.pos,
             eof |-> symbol.eof, done |-> FALSE]
       [] symbol.val # None /\ symbol.val < 256 ->
            [exc |-> "", data |-> Append(data, symbol.val), pos |-> symbol.pos,
             eof |-> symbol.eof, done |-> FALSE]
       [] OTHER ->
            inflate_match(buffer, symbol.pos, symbol.eof, dist_code, data,
                          symbol.val)

(***************************************************************************)
(* The two headers.                                                        *)
(***************************************************************************)
\* decode_cstring: bytes up to the first zero byte, the zero byte taken too;
\* chars holds the bytes read so far
RECURSIVE decode_cstring(_, _, _, _)
decode_cstring(buffer, p, e, chars) ==
  LET byte == to_number(buffer, p, e, 8)
  IN IF byte.exc # "" THEN [byte EXCEPT !.val = chars]
     ELSE IF byte.val = 0 THEN [byte EXCEPT !.val = chars]
     ELSE decode_cstring(buffer, byte.pos, byte.eof, Append(chars, byte.val))

\* a header after one more read: `header` if the read went through
after_read(read, header) ==
  [exc |-> read.exc, pos |-> read.pos, eof |-> read.eof,
   val |-> IF read.exc = "" THEN header ELSE None]

\* GzipHeader before any field is read, with the defaults of the dataclass.
\* fname and comment are lists of character codes; the default None is the
\* empty list, like '' (the one use of fname is its truth value).
gzip_header_defaults ==
  [magic |-> <<0, 0>>, cm |-> 0, flg |-> 0, mtime |-> 0, xfl |-> 0, os |-> 0,
   xlen |-> 0, extra_bytes |-> 0, fname |-> <<>>, comment |-> <<>>, crc |-> 0]

\* the statements of gzip_header_from_stream in order, `prev` being the
\* header and the stream before the statement.  The extra field is read as
\* xlen bits and the header CRC as 8 bits, as the code does.
gzip_header_statement(buffer, prev, n) ==
  LET h == prev.val
      number(count) == to_number(buffer, prev.pos, prev.eof, count)
      cstring == decode_cstring(buffer, prev.pos, prev.eof, <<>>)
  IN CASE n = 1 -> after_read(number(8), [h EXCEPT !.magic[1] = number(8).val])
       [] n = 2 -> after_read(number(8), [h EXCEPT !.magic[2] = number(8).val])
       [] n = 3 -> after_read(number(8), [h EXCEPT !.cm = number(8).val])
       [] n = 4 -> after_read(number(8), [h EXCEPT !.flg = number(8).val])
       [] n = 5 -> after_read(number(32), [h EXCEPT !.mtime = number(32).val])
       [] n = 6 -> after_read(number(8), [h EXCEPT !.xfl = number(8).val])
       [] n = 7 -> after_read(number(8), [h EXCEPT !.os = number(8).val])
       [] n = 8 /\ flag_set(h.flg, FEXTRA) ->
            after_read(number(16), [h EXCEPT !.xlen = number(16).val])
       [] n = 9 /\ flag_set(h.flg, FEXTRA) ->
            after_read(number(h.xlen),
                       [h EXCEPT !.extra_bytes = number(h.xlen).val])
       [] n = 10 /\ flag_set(h.flg, FNAME) ->
            after_read(cstring, [h EXCEPT !.fname = cstring.val])
       [] n = 11 /\ flag_set(h.flg, FCOMMENT) ->
            after_read(cstring, [h EXCEPT !.comment = cstring.val])
       [] n = 12 /\ flag_set(h.flg, FHCRC) ->
            after_read(number(8), [h EXCEPT !.crc = number(8).val])
       [] OTHER -> prev

\* the statements from the n-th on, up to the first that raises
RECURSIVE gzip_header_from(_, _, _)
gzip_header_from(buffer, prev, n) ==
  IF n > 12 \/ prev.exc # "" THEN prev
  ELSE gzip_header_from(buffer, gzip_header_statement(buffer, prev, n), n + 1)

\* gzip_header_from_stream on a fresh stream: the GzipHeader and the stream
\* after it, or the exception
gzip_header_from_stream(buffer) ==
  gzip_header_from(buffer,
                   [exc |-> "", pos |-> 0, eof |-> FALSE,
                    val |-> gzip_header_defaults], 1)

\* the statements of deflate_header_from_stream in order: bfinal, btype
\* and, for a dynamic block, hlit, hdist, hclen
deflate_header_statement(buffer, prev, n) ==
  LET h == prev.val
      number(count) == to_number(buffer, prev.pos, prev.eof, count)
  IN CASE n = 1 -> after_read(number(1), [h EXCEPT !.bfinal = number(1).val])
       [] n = 2 -> after_read(number(2), [h EXCEPT !.btype = number(2).val])
       [] n = 3 /\ h.btype = DYNAMIC ->
            after_read(number(5), [h EXCEPT !.hlit = number(5).val])
       [] n = 4 /\ h.btype = DYNAMIC ->
            after_read(number(5), [h EXCEPT !.hdist = number(5).val])
       [] n = 5 /\ h.btype = DYNAMIC ->
            after_read(number(4), [h EXCEPT !.hclen = number(4).val])
       [] OTHER -> prev

RECURSIVE deflate_header_from(_, _, _)
deflate_header_from(buffer, prev, n) ==
  IF n > 5 \/ prev.exc # "" THEN prev
  ELSE deflate_header_from(buffer, deflate_header_statement(buffer, prev, n),
                           n + 1)

\* deflate_header_from_stream with the stream at (p, e)
deflate_header_from_stream(buffer, p, e) ==
  deflate_header_from(buffer,
                      [exc |-> "", pos |-> p, eof |-> e,
                       val |-> [bfinal |-> 0, btype |-> 0, hlit |-> 0,
                                hdist |-> 0, hclen |-> 0]], 1)

\* [to_number(stream, 3) for _ in range(count)], after the reads in `got`
RECURSIVE read_rle_codelengths(_, _, _, _, _)
read_rle_codelengths(buffer, p, e, count, got) ==
  IF Len(got) = count THEN [exc |-> "", val |-> got, pos |-> p, eof |-> e]
  ELSE LET n == to_number(buffer, p, e, 3)
       IN IF n.exc # "" THEN [n EXCEPT !.val = got]
          ELSE read_rle_codelengths(buffer, n.pos, n.eof, count,
                                    Append(got, n.val))

\* the Huffman code of the distance alphabet in a fixed block
fixed_dist_huf_code == [key \in {<<5, dist_code>> : dist_code \in 0..31} |-> key[2]]

\* the literal/length code of a fixed block
litlen_fixed_huf_code ==
  construct_huffman(fixed_litlen_alphabet, fixed_huf_codelengths).val

\* args.file and str.removesuffix('.gz'), names being lists of character codes
args_file == <<116, 46, 103, 122>>
gz_suffix == <<46, 103, 122>>
removesuffix(name, suffix) ==
  IF Len(name) >= Len(suffix)
     /\ SubSeq(name, Len(name) - Len(suffix) + 1, Len(name)) = suffix
  THEN SubSeq(name, 1, Len(name) - Len(suffix))
  ELSE name

\* outfilename: the header's file name when it has a non-empty one
outfilename(header) ==
  IF header.fname # <<>> THEN header.fname
  ELSE removesuffix(args_file, gz_suffix)

(***************************************************************************)
(* The run of gunzip.py, one action per step of __main__.                  *)
(***************************************************************************)
\* a variable the run has not assigned yet
unset == <<>>

no_file == [opened |-> 0, name |-> <<>>, data |-> <<>>]

\* an uncaught exception or a sys.exit ends the run
raise(exc) == pc' = "raised" /\ error' = exc

\* gz_header = gzip_header_from_stream(stream)
GzipHeader ==
  /\ pc = "gzip_header"
  /\ LET r == gzip_header_from_stream(gz)
     IN /\ pos' = r.pos
        /\ eof' = r.eof
        /\ IF r.exc = ""
           THEN gz_header' = r.val /\ pc' = "deflate_header" /\ UNCHANGED error
           ELSE raise(r.exc) /\ UNCHANGED gz_header
  /\ UNCHANGED <<gz, def_header, huf_code, litlen_codelengths, dist_codelengths,
                 litlen_huf_code, dist_huf_code, uncompressed_data, outfile,
                 call, ret>>

\* def_header = deflate_header_from_stream(stream)
DeflateHeader ==
  /\ pc = "deflate_header"
  /\ LET r == deflate_header_from_stream(gz, pos, eof)
     IN /\ pos' = r.pos
        /\ eof' = r.eof
        /\ IF r.exc = ""
           THEN def_header' = r.val /\ pc' = "block" /\ UNCHANGED error
           ELSE raise(r.exc) /\ UNCHANGED def_header
  /\ UNCHANGED <<gz, gz_header, huf_code, litlen_codelengths, dist_codelengths,
                 litlen_huf_code, dist_huf_code, uncompressed_data, outfile,
                 call, ret>>

\* a dynamic block: the code lengths of the code-length alphabet and its code
RleCode ==
  /\ pc = "block"
  /\ def_header.btype = DYNAMIC
  /\ LET rle_codelengths == read_rle_codelengths(gz, pos, eof,
                                                 4 + def_header.hclen, <<>>)
         code == construct_huffman(rle_alphabet, rle_codelengths.val)
     IN /\ pos' = rle_codelengths.pos
        /\ eof' = rle_codelengths.eof
        /\ CASE rle_codelengths.exc # "" ->
                  raise(rle_codelengths.exc) /\ UNCHANGED huf_code
             [] rle_codelengths.exc = "" /\ code.exc # "" ->
                  raise(code.exc) /\ UNCHANGED huf_code
             [] OTHER ->
                  huf_code' = code.val /\ pc' = "litlen_codelengths"
                    /\ UNCHANGED error
  /\ litlen_codelengths' = <<>>
  /\ UNCHANGED <<gz, gz_header, def_header, dist_codelengths, litlen_huf_code,
                 dist_huf_code, uncompressed_data, outfile, call, ret>>

\* one turn of decode_codelengths(stream, huf_code, hlit + 257); the call
\* returns its list when the list has reached the count
LitlenCodelengths ==
  /\ pc = "litlen_codelengths"
  /\ LET r == decode_codelengths_turn(gz, pos, eof, huf_code, litlen_codelengths)
     IN /\ pos' = r.pos
        /\ eof' = r.eof
        /\ litlen_codelengths' = r.val
        /\ CASE r.exc # "" -> raise(r.exc)
             [] r.exc = "" /\ Len(r.val) < def_header.hlit + 257 ->
                  UNCHANGED <<pc, error>>
             [] OTHER -> pc' = "dist_codelengths" /\ UNCHANGED error
  /\ dist_codelengths' = <<>>
  /\ UNCHANGED <<gz, gz_header, def_header, huf_code, litlen_huf_code,
                 dist_huf_code, uncompressed_data, outfile, call, ret>>

\* one turn of decode_codelengths(stream, huf_code, hdist + 1)
DistCodelengths ==
  /\ pc = "dist_codelengths"
  /\ LET r == decode_codelengths_turn(gz, pos, eof, huf_code, dist_codelengths)
     IN /\ pos' = r.pos
        /\ eof' = r.eof
        /\ dist_codelengths' = r.val
        /\ CASE r.exc # "" -> raise(r.exc)
             [] r.exc = "" /\ Len(r.val) < def_header.hdist + 1 ->
                  UNCHANGED <<pc, error>>
             [] OTHER -> pc' = "construct" /\ UNCHANGED error
  /\ UNCHANGED <<gz, gz_header, def_header, huf_code, litlen_codelengths,
                 litlen_huf_code, dist_huf_code, uncompressed_data, outfile,
                 call, ret>>

\* the two codes of a dynamic block, then inflate starts on an empty buffer
ConstructCodes ==
  /\ pc = "construct"
  /\ LET litlen == construct_huffman(range(def_header.hlit + 257),
                                     litlen_codelengths)
         dist == construct_huffman(range(def_header.hdist + 1),
                                   dist_codelengths)
     IN CASE litlen.exc # "" ->
               raise(litlen.exc) /\ UNCHANGED <<litlen_huf_code, dist_huf_code>>
          [] litlen.exc = "" /\ dist.exc # "" ->
               /\ raise(dist.exc)
               /\ litlen_huf_code' = litlen.val
               /\ UNCHANGED dist_huf_code
          [] OTHER ->
               /\ litlen_huf_code' = litlen.val
               /\ dist_huf_code' = dist.val
               /\ pc' = "inflate"
               /\ UNCHANGED error
  /\ uncompressed_data' = <<>>
  /\ UNCHANGED <<gz, pos, eof, gz_header, def_header, huf_code,
                 litlen_codelengths, dist_codelengths, outfile, call, ret>>

\* a fixed block: its two codes, then inflate starts on an empty buffer
FixedCodes ==
  /\ pc = "block"
  /\ def_header.btype = FIXED
  /\ litlen_huf_code' = litlen_fixed_huf_code
  /\ dist_huf_code' = fixed_dist_huf_code
  /\ uncompressed_data' = <<>>
  /\ pc' = "inflate"
  /\ UNCHANGED <<gz, pos, eof, gz_header, def_header, huf_code,
                 litlen_codelengths, dist_codelengths, outfile, error, call, ret>>

\* a stored block: sys.exit("Error: btype = 0 not implemented yet")
NotImplemented ==
  /\ pc = "block"
  /\ def_header.btype = NO_COMPRESSION
  /\ raise("SystemExit")
  /\ UNCHANGED <<gz, pos, eof, gz_header, def_header, huf_code,
                 litlen_codelengths, dist_codelengths, litlen_huf_code,
                 dist_huf_code, uncompressed_data, outfile, call, ret>>

\* any other block type: sys.exit("Error: invalid block type")
InvalidBlockType ==
  /\ pc = "block"
  /\ def_header.btype \notin {DYNAMIC, FIXED, NO_COMPRESSION}
  /\ raise("SystemExit")
  /\ UNCHANGED <<gz, pos, eof, gz_header, def_header, huf_code,
                 litlen_codelengths, dist_codelengths, litlen_huf_code,
                 dist_huf_code, uncompressed_data, outfile, call, ret>>

\* one turn of the loop of inflate; at the end-of-block symbol inflate
\* returns and the run goes on to write the file, whatever bfinal was
Inflate ==
  /\ pc = "inflate"
  /\ LET r == inflate_turn(gz, pos, eof, litlen_huf_code, dist_huf_code,
                           uncompressed_data)
     IN /\ pos' = r.pos
        /\ eof' = r.eof
        /\ uncompressed_data' = r.data
        /\ CASE r.exc # "" -> raise(r.exc)
             [] r.exc = "" /\ r.done -> pc' = "write" /\ UNCHANGED error
             [] OTHER -> UNCHANGED <<pc, error>>
  /\ UNCHANGED <<gz, gz_header, def_header, huf_code, litlen_codelengths,
                 dist_codelengths, litlen_huf_code, dist_huf_code, outfile,
                 call, ret>>

\* open(outfilename, 'wb') and write the buffer
WriteOutput ==
  /\ pc = "write"
  /\ outfile' = [opened |-> outfile.opened + 1, name |-> outfilename(gz_header),
                 data |-> uncompressed_data]
  /\ pc' = "done"
  /\ UNCHANGED <<gz, pos, eof, gz_header, def_header, huf_code,
                 litlen_codelengths, dist_codelengths, litlen_huf_code,
                 dist_huf_code, uncompressed_data, error, call, ret>>

\* the state after `stream = bitstream(gz)` on the file `file`
Start(file) ==
  /\ gz = file
  /\ pos = 0
  /\ eof = FALSE
  /\ pc = "gzip_header"
  /\ gz_header = unset
  /\ def_header = unset
  /\ huf_code = unset
  /\ litlen_codelengths = unset
  /\ dist_codelengths = unset
  /\ litlen_huf_code = unset
  /\ dist_huf_code = unset
  /\ uncompressed_data = <<>>
  /\ outfile = no_file
  /\ error = ""
  /\ ret = unset

(***************************************************************************)
(* Input files.  They are built as RFC 1952 and RFC 1951 lay them out,     *)
(* not with the decoder's own tables turned round.                         *)
(***************************************************************************)
MaxXlen == 2
MaxStrLen == 1
MaxBuf == 3
MaxMatchLen == 5
MaxDist == 5

\* v in n bits, least significant bit first (a packed integer)
num_bits(v, n) == [i \in 1..n |-> (v \div pow2(i - 1)) % 2]

\* v in n bits, most significant bit first (a Huffman code)
code_bits(v, n) == [i \in 1..n |-> (v \div pow2(n - i)) % 2]

RECURSIVE flatten(_)
flatten(ss) == IF ss = <<>> THEN <<>> ELSE Head(ss) \o flatten(Tail(ss))

\* bits to bytes, the last byte filled with zero bits
pack(bits) ==
  LET b == bits \o repeat(0, (8 - (Len(bits) % 8)) % 8)
  IN [k \in 1..(Len(b) \div 8) |->
        b[8 * k - 7] + 2 * b[8 * k - 6] + 4 * b[8 * k - 5] + 8 * b[8 * k - 4]
          + 16 * b[8 * k - 3] + 32 * b[8 * k - 2] + 64 * b[8 * k - 1]
          + 128 * b[8 * k]]

\* RFC 1951 3.2.6: the fixed code of a literal/length symbol
fixed_code_bits(sym) ==
  CASE sym <= 143 -> code_bits(48 + sym, 8)
    [] sym >= 144 /\ sym <= 255 -> code_bits(400 + sym - 144, 9)
    [] sym >= 256 /\ sym <= 279 -> code_bits(sym - 256, 7)
    [] OTHER -> code_bits(192 + sym - 280, 8)

\* the row of an offset table a value falls in (from 1)
row_of(offset, v) ==
  CHOOSE i \in 1..Len(offset) :
    offset[i] <= v /\ (i = Len(offset) \/ offset[i + 1] > v)

\* a back-reference in a fixed block
match_bits(length, distance) ==
  LET l == row_of(length_offset, length)
      d == row_of(distance_offset, distance)
  IN fixed_code_bits(256 + l)
       \o num_bits(length - length_offset[l], length_extra_bits[l])
       \o code_bits(d - 1, 5)
       \o num_bits(distance - distance_offset[d], distance_extra_bits[d])

literal_bits(data) == flatten([i \in 1..Len(data) |-> fixed_code_bits(data[i])])

\* a fixed block: header, body, end-of-block symbol
fixed_block(bfinal, body) ==
  <<bfinal>> \o num_bits(FIXED, 2) \o body \o fixed_code_bits(256)

\* a stored block, which starts a byte: header, padding, LEN, NLEN, the bytes
stored_block(bfinal, len, nlen, data) ==
  <<bfinal>> \o num_bits(NO_COMPRESSION, 2) \o repeat(0, 5)
    \o num_bits(len, 16) \o num_bits(nlen, 16)
    \o flatten([i \in 1..Len(data) |-> num_bits(data[i], 8)])

\* a dynamic block: header, the 3-bit lengths of the code-length code, then
\* the bits given (the coded lengths and the data)
dynamic_block(bfinal, hlit, hdist, rle_codelengths, rest) ==
  <<bfinal>> \o num_bits(DYNAMIC, 2) \o num_bits(hlit, 5) \o num_bits(hdist, 5)
    \o num_bits(Len(rle_codelengths) - 4, 4)
    \o flatten([i \in 1..Len(rle_codelengths) |-> num_bits(rle_codelengths[i], 3)])
    \o rest

\* "ab" then a copy of 3 bytes from 2 back: ababa
deflate_fixed == pack(fixed_block(1, literal_bits(<<97, 98>>) \o match_bits(3, 2)))

\* a block that is not final holding "a", then a final block holding "b"
deflate_two_blocks ==
  pack(fixed_block(0, literal_bits(<<97>>)) \o fixed_block(1, literal_bits(<<98>>)))

\* a final stored block holding "ab"
deflate_stored == pack(stored_block(1, 2, 65533, <<97, 98>>))

\* a stored block whose NLEN is not the complement of LEN
deflate_stored_bad == pack(stored_block(1, 2, 2, <<97, 98>>))

\* a block of the reserved type 3
deflate_reserved == pack(<<1, 1, 1>>)

\* "abc" then a copy of 3 bytes from 4 back, before the first byte
deflate_bad_distance ==
  pack(fixed_block(1, literal_bits(<<97, 98, 99>>) \o match_bits(3, 4)))

\* a dynamic block holding "a".  Code-length code: 1 -> 0, 18 -> 1.  Lengths:
\* 97 zeros, 1 (for 'a'), 158 zeros, 1 (for 256); 1 (distance 0).  Data:
\* 'a' is 0, end of block is 1.
deflate_dynamic ==
  pack(dynamic_block(1, 0, 0, <<0, 0, 1, 0, 0, 0, 0, 0, 0, 0, 0, 0, 0, 0, 0, 0, 0, 1>>,
         <<1>> \o num_bits(86, 7) \o <<0>> \o <<1>> \o num_bits(127, 7)
           \o <<1>> \o num_bits(9, 7) \o <<0>> \o <<0>> \o <<0, 1>>))

\* a dynamic block holding the byte 255, with a run that crosses from the
\* literal/length lengths into the distance lengths (RFC 1951 3.2.7).
\* Code-length code: 18 -> 0, 1 -> 10, 16 -> 11.  Lengths: 255 zeros, 1 (for
\* 255), then 16 repeating it 3 times: for 256 and the distances 0 and 1.
deflate_dynamic_crossing ==
  pack(dynamic_block(1, 0, 1, <<2, 0, 1, 0, 0, 0, 0, 0, 0, 0, 0, 0, 0, 0, 0, 0, 0, 2>>,
         <<0>> \o num_bits(127, 7) \o <<0>> \o num_bits(106, 7) \o <<1, 0>>
           \o <<1, 1>> \o num_bits(0, 2) \o <<0, 1>>))

\* a dynamic block whose code-length code gives the three symbols 16, 17
\* and 18 one bit each: over-subscribed
deflate_dynamic_oversubscribed ==
  pack(dynamic_block(1, 0, 0, <<1, 1, 1, 0>>, repeat(0, 16)))

\* the start of a dynamic block that fills 12 bytes to the last bit and ends
\* after the first of its two distance lengths.  Code-length code: 18 -> 0,
\* 1 -> 10, 16 -> 11.  Lengths: 255 zeros, 1 (for 255), 1 (for 256); 1
\* (distance 0).
deflate_dynamic_short ==
  pack(dynamic_block(1, 0, 1,
         <<2, 0, 1, 0, 0, 0, 0, 0, 0, 0, 0, 0, 0, 0, 0, 0, 0, 2, 0>>,
         <<0>> \o num_bits(127, 7) \o <<0>> \o num_bits(106, 7) \o <<1, 0>>
           \o <<1, 0>> \o <<1, 0>>))

\* each payload with the length of what it holds
deflate_payloads ==
  {<<deflate_fixed, 5>>, <<deflate_two_blocks, 2>>, <<deflate_stored, 2>>,
   <<deflate_stored_bad, 2>>, <<deflate_reserved, 0>>,
   <<deflate_bad_distance, 6>>, <<deflate_dynamic, 1>>,
   <<deflate_dynamic_crossing, 1>>, <<deflate_dynamic_oversubscribed, 0>>,
   <<deflate_dynamic_short, 0>>}

\* the optional parts of a gzip header: the length of each, -1 for a part
\* that is absent
header_shapes ==
  [xlen : -1..MaxXlen, fname : -1..MaxStrLen, comment : -1..MaxStrLen,
   hcrc : {-1, 2}]

plain_header == [xlen |-> -1, fname |-> -1, comment |-> -1, hcrc |-> -1]
named_header == [xlen |-> -1, fname |-> 1, comment |-> -1, hcrc |-> -1]

\* RFC 1952 2.3: magic, CM = 8, FLG, MTIME = 0, XFL = 0, OS = 3, then the
\* optional parts in the order FEXTRA, FNAME, FCOMMENT, FHCRC
gzip_header_bytes(h) ==
  <<31, 139, 8,
    (IF h.hcrc >= 0 THEN FHCRC ELSE 0) + (IF h.xlen >= 0 THEN FEXTRA ELSE 0)
      + (IF h.fname >= 0 THEN FNAME ELSE 0)
      + (IF h.comment >= 0 THEN FCOMMENT ELSE 0),
    0, 0, 0, 0, 0, 3>>
    \o (IF h.xlen >= 0 THEN <<h.xlen % 256, h.xlen \div 256>> \o repeat(65, h.xlen)
        ELSE <<>>)
    \o (IF h.fname >= 0 THEN repeat(102, h.fname) \o <<0>> ELSE <<>>)
    \o (IF h.comment >= 0 THEN repeat(99, h.comment) \o <<0>> ELSE <<>>)
    \o (IF h.hcrc >= 0 THEN <<18, 52>> ELSE <<>>)

\* the trailer: CRC32 (left zero, nothing reads it) and ISIZE
gzip_trailer(isize) == <<0, 0, 0, 0, isize % 256, isize \div 256, 0, 0>>

gzip_file(h, deflate, isize) ==
  gzip_header_bytes(h) \o deflate \o gzip_trailer(isize)

\* every header shape before one payload, and every payload behind two
\* headers
whole_files ==
  {gzip_file(h, deflate_fixed, 5) : h \in header_shapes}
    \cup {gzip_file(h, d[1], d[2]) : h \in {plain_header, named_header},
                                     d \in deflate_payloads}

\* the file cut after any number of its bytes
prefixes(file) == {SubSeq(file, 1, k) : k \in 0..Len(file)}

Init ==
  \E file \in whole_files :
    \E cut \in prefixes(file) : Start(cut) /\ call = unset

Next ==
  \/ GzipHeader
  \/ DeflateHeader
  \/ RleCode
  \/ LitlenCodelengths
  \/ DistCodelengths
  \/ ConstructCodes
  \/ FixedCodes
  \/ NotImplemented
  \/ InvalidBlockType
  \/ Inflate
  \/ WriteOutput

Spec == Init /\ [][Next]_vars

(***************************************************************************)
(* The run on files that hold one back-reference: a final fixed block with *)
(* the literals call.buffer, then a copy of call.length bytes from         *)
(* call.distance back; and the copy of dump.py on the same pair.           *)
(***************************************************************************)
buffers == UNION {[1..n -> {97, 98}] : n \in 0..MaxBuf}

\* short lengths, the first length with extra bits, the longest length
match_lengths == 3..MaxMatchLen \cup {11, 258}

InitInflate ==
  \E buffer \in buffers, length \in match_lengths, distance \in 1..MaxDist :
    /\ Start(gzip_file(plain_header,
                       pack(fixed_block(1, literal_bits(buffer)
                                             \o match_bits(length, distance))),
                       Len(buffer) + length))
    /\ call = [buffer |-> buffer, length |-> length, distance |-> distance]

\* dump.py's inflate at the same back-reference: the pair copied onto the
\* buffer that holds the literals
DumpCopy ==
  /\ pc = "gzip_header"
  /\ LET r == dump_copy_match(call.buffer, call.length, call.distance)
     IN /\ ret' = [fn |-> "dump", exc |-> r.exc]
        /\ uncompressed_data' = r.val
  /\ pc' = "returned"
  /\ UNCHANGED <<gz, pos, eof, gz_header, def_header, huf_code,
                 litlen_codelengths, dist_codelengths, litlen_huf_code,
                 dist_huf_code, outfile, error, call>>

NextInflate ==
  \/ GzipHeader
  \/ DeflateHeader
  \/ FixedCodes
  \/ Inflate
  \/ WriteOutput
  \/ DumpCopy

SpecInflate == InitInflate /\ [][NextInflate]_vars

(***************************************************************************)
(* construct_huffman called on its own, on every short list of code        *)
(* lengths, for an alphabet in order (range(n), as for the literal/length  *)
(* and distance codes) and one out of order (the head of rle_alphabet).    *)
(***************************************************************************)
MaxSyms == 4
MaxCodeLen == 3

length_lists(syms, maxlen) == UNION {[1..n -> 0..maxlen] : n \in 1..syms}

\* a variable of the run that a call of one function leaves alone
IdleRun ==
  /\ gz_header = unset
  /\ def_header = unset
  /\ litlen_codelengths = unset
  /\ dist_codelengths = unset
  /\ litlen_huf_code = unset
  /\ dist_huf_code = unset
  /\ uncompressed_data = <<>>
  /\ outfile = no_file
  /\ error = ""

InitConstruct ==
  \E code_lengths \in length_lists(MaxSyms, MaxCodeLen) :
    \E alphabet \in {range(Len(code_lengths)),
                     SubSeq(rle_alphabet, 1, Len(code_lengths))} :
      /\ call = [alphabet |-> alphabet, code_lengths |-> code_lengths]
      /\ pc = "construct_huffman"
      /\ gz = <<>>
      /\ pos = 0
      /\ eof = FALSE
      /\ huf_code = unset
      /\ ret = unset
      /\ IdleRun

\* huf_code = construct_huffman(alphabet, code_lengths), gunzip.py's
ConstructHuffman ==
  /\ pc = "construct_huffman"
  /\ LET r == construct_huffman(call.alphabet, call.code_lengths)
     IN /\ ret' = [fn |-> "gunzip", exc |-> r.exc]
        /\ huf_code' = r.val
  /\ pc' = "returned"
  /\ UNCHANGED <<gz, pos, eof, gz_header, def_header, litlen_codelengths,
                 dist_codelengths, litlen_huf_code, dist_huf_code,
                 uncompressed_data, outfile, error, call>>

\* huf_code = construct_huffman(alphabet, code_lengths), dump.py's
DumpConstructHuffman ==
  /\ pc = "construct_huffman"
  /\ LET r == dump_construct_huffman(call.alphabet, call.code_lengths)
     IN /\ ret' = [fn |-> "dump", exc |-> r.exc]
        /\ huf_code' = r.val
  /\ pc' = "returned"
  /\ UNCHANGED <<gz, pos, eof, gz_header, def_header, litlen_codelengths,
                 dist_codelengths, litlen_huf_code, dist_huf_code,
                 uncompressed_data, outfile, error, call>>

NextConstruct ==
  \/ ConstructHuffman
  \/ DumpConstructHuffman

SpecConstruct == InitConstruct /\ [][NextConstruct]_vars

(***************************************************************************)
(* decode_huf, then to_number, called on a stream of one byte that stands  *)
(* at any of its first bits, with every code construct_huffman builds      *)
(* from a short list of code lengths.                                      *)
(***************************************************************************)
DecSyms == 3
DecCodeLen == 2
StreamBits == 5
MaxStart == 1
MaxCount == 2

decode_codes ==
  {construct_huffman(range(Len(l)), l).val :
     l \in {m \in length_lists(DecSyms, DecCodeLen) :
              \E i \in 1..Len(m) : m[i] # 0}}

InitDecode ==
  \E code \in decode_codes, byte \in 0..(pow2(StreamBits) - 1),
     start \in 0..MaxStart :
    /\ huf_code = code
    /\ gz = <<byte>>
    /\ pos = start
    /\ eof = FALSE
    /\ pc = "decode_huf"
    /\ call = unset
    /\ ret = unset
    /\ IdleRun

\* decode_huf(stream, huf_code)
DecodeHuf ==
  /\ pc = "decode_huf"
  /\ LET r == decode_huf(gz, pos, eof, huf_code)
     IN /\ ret' = [start |-> pos, count |-> 0, exc |-> "", val |-> r.val]
        /\ pos' = r.pos
        /\ eof' = r.eof
  /\ pc' = "to_number"
  /\ UNCHANGED <<gz, gz_header, def_header, huf_code, litlen_codelengths,
                 dist_codelengths, litlen_huf_code, dist_huf_code,
                 uncompressed_data, outfile, error, call>>

\* to_number(stream, count)
ToNumber ==
  /\ pc = "to_number"
  /\ \E count \in 0..MaxCount :
       LET r == to_number(gz, pos, eof, count)
       IN /\ ret' = [start |-> pos, count |-> count, exc |-> r.exc,
                     val |-> r.val]
          /\ pos' = r.pos
          /\ eof' = r.eof
  /\ pc' = "returned"
  /\ UNCHANGED <<gz, gz_header, def_header, huf_code, litlen_codelengths,
                 dist_codelengths, litlen_huf_code, dist_huf_code,
                 uncompressed_data, outfile, error, call>>

NextDecode ==
  \/ DecodeHuf
  \/ ToNumber

SpecDecode == InitDecode /\ [][NextDecode]_vars

(***************************************************************************)
(* The claims.                                                             *)
(***************************************************************************)
\* the run has ended
Ended == pc \in {"done", "raised"}

\* gz starts with the bytes `head`
starts_with(head) == Len(gz) >= Len(head) /\ SubSeq(gz, 1, Len(head)) = head

\* a key's value fits its length
fits(key) == key[2] < pow2(key[1])

\* the bits of k1 are the first bits of k2
is_prefix(k1, k2) == k1[1] <= k2[1] /\ k2[2] \div pow2(k2[1] - k1[1]) = k1[2]

prefix_free(code) ==
  \A k1, k2 \in DOMAIN code : k1 # k2 => ~is_prefix(k1, k2)

is_prefix_code(code) == (\A key \in DOMAIN code : fits(key)) /\ prefix_free(code)

\* sum over the symbols in use of 2^(maxlen - length): at most 2^maxlen
\* when the sum of 2^-length is at most 1
RECURSIVE kraft_sum(_, _)
kraft_sum(lengths, maxlen) ==
  IF lengths = <<>> THEN 0
  ELSE (IF Head(lengths) = 0 THEN 0 ELSE pow2(maxlen - Head(lengths)))
         + kraft_sum(Tail(lengths), maxlen)

in_use(lengths) == {i \in 1..Len(lengths) : lengths[i] # 0}

not_oversubscribed(lengths) ==
  kraft_sum(lengths, MaxCodeLen + 1) <= pow2(MaxCodeLen + 1)

\* the bits of the stream from p on start with the key's code, first bit
\* of the code first
code_at(buffer, p, key) ==
  /\ p + key[1] <= nbits(buffer)
  /\ \A i \in 0..(key[1] - 1) :
       bitstream(buffer, p + i) = (key[2] \div pow2(key[1] - 1 - i)) % 2

\* `out` is `buffer` followed by `length` bytes, each the byte `distance`
\* before it
byte_by_byte(out, buffer, length, distance) ==
  /\ Len(out) = Len(buffer) + length
  /\ \A i \in 1..Len(buffer) : out[i] = buffer[i]
  /\ \A i \in (Len(buffer) + 1)..(Len(buffer) + length) :
       out[i] = out[i - distance]

\* C1: the run writes its output only after a block whose final flag is 1;
\* the file of a block that is not final holding "a" and a final block
\* holding "b" is written out as "ab".
C1_BlockLoop ==
  /\ pc = "done" => def_header.bfinal = 1
  /\ pc = "done" /\ gz = gzip_file(plain_header, deflate_two_blocks, 2)
       => outfile.data = <<97, 98>>

\* C2: a back-reference whose distance is greater than the number of bytes
\* in the buffer ends in an error: inflate does not return and no file is
\* written (gunzip.py); the copy of dump.py fails too.
C2_InvalidDistance ==
  call.distance > Len(call.buffer) =>
    /\ pc \notin {"write", "done"}
    /\ outfile.opened = 0
    /\ pc = "returned" => ret.exc # ""

\* C3: a back-reference with 1 <= distance <= the bytes in the buffer does
\* not fail, and leaves the buffer as it was followed by `length` bytes,
\* each equal to the byte `distance` before it; in gunzip.py (the run) and
\* in dump.py (its copy applied to the same buffer).
C3_OverlappingCopy ==
  call.distance <= Len(call.buffer) =>
    /\ pc # "raised"
    /\ pc \in {"write", "done"} =>
         byte_by_byte(uncompressed_data, call.buffer, call.length,
                      call.distance)
    /\ pc = "done" => outfile.data = uncompressed_data
    /\ pc = "returned" =>
         /\ ret.exc = ""
         /\ byte_by_byte(uncompressed_data, call.buffer, call.length,
                         call.distance)

\* C3's case: "a", then 5 bytes from 1 back, written out as "aaaaaa"
C3_Witness ==
  /\ pc = "done"
  /\ call = [buffer |-> <<97>>, length |-> 5, distance |-> 1]
  /\ outfile.data = <<97, 97, 97, 97, 97, 97>>

\* C4: when a call of decode_codelengths returns before the stream has run
\* out, its list has exactly the count asked for: hlit + 257 entries from
\* the first call, hdist + 1 from the second.
C4_ExactCount ==
  /\ pc = "dist_codelengths" /\ ~eof
       => Len(litlen_codelengths) = def_header.hlit + 257
  /\ pc = "construct" /\ ~eof
       => Len(dist_codelengths) = def_header.hdist + 1

\* C5: the file of one final stored block holding "ab" is written out as
\* "ab", and the file of a stored block whose NLEN is not the complement of
\* LEN ends in an error.
C5_Stored ==
  \A h \in {plain_header, named_header} :
    /\ Ended /\ gz = gzip_file(h, deflate_stored, 2)
         => pc = "done" /\ outfile.data = <<97, 98>>
    /\ Ended /\ gz = gzip_file(h, deflate_stored_bad, 2) => pc = "raised"

\* C6: for code lengths that are in use for some symbol and not
\* over-subscribed, construct_huffman (gunzip.py's and dump.py's) returns
\* a code with one key (L, v) for each symbol of length L # 0 and no other
\* key, every v below 2^L, and no key a prefix of another.
C6_CanonicalCode ==
  pc = "returned" /\ in_use(call.code_lengths) # {}
    /\ not_oversubscribed(call.code_lengths) =>
    /\ ret.exc = ""
    /\ Cardinality(DOMAIN huf_code) = Cardinality(in_use(call.code_lengths))
    /\ \A i \in in_use(call.code_lengths) :
         \E key \in DOMAIN huf_code :
           key[1] = call.code_lengths[i] /\ huf_code[key] = call.alphabet[i]
    /\ is_prefix_code(huf_code)

\* C6's case: lengths 2, 1, 3, 3 give 0 -> 10, 1 -> 0, 2 -> 110, 3 -> 111
C6_Witness ==
  /\ pc = "returned"
  /\ ret.fn = "gunzip"
  /\ call = [alphabet |-> <<0, 1, 2, 3>>, code_lengths |-> <<2, 1, 3, 3>>]
  /\ huf_code = (<<1, 0>> :> 1 @@ <<2, 2>> :> 0 @@ <<3, 6>> :> 2 @@ <<3, 7>> :> 3)

\* C7: when gzip_header_from_stream has returned on a file that holds a
\* whole header, the stream stands at the first bit after the header: the
\* extra field skipped as XLEN bytes, the header CRC as two.
C7_HeaderEnd ==
  \A h \in header_shapes :
    pc = "deflate_header" /\ starts_with(gzip_header_bytes(h))
      => pos = 8 * Len(gzip_header_bytes(h))

\* how far the run is from its end: the statements of __main__ still to
\* come, and within a loop the turns it can still take (code lengths still
\* missing, bits still unread)
statements_left ==
  CASE pc = "gzip_header" -> 8
    [] pc = "deflate_header" -> 7
    [] pc = "block" -> 6
    [] pc = "litlen_codelengths" -> 5
    [] pc = "dist_codelengths" -> 4
    [] pc = "construct" -> 3
    [] pc = "inflate" -> 2
    [] pc = "write" -> 1
    [] OTHER -> 0

turns_left ==
  CASE pc = "litlen_codelengths" ->
         def_header.hlit + 257 - Len(litlen_codelengths)
    [] pc = "dist_codelengths" -> def_header.hdist + 1 - Len(dist_codelengths)
    [] pc = "inflate" -> nbits(gz) - pos
    [] OTHER -> 0

variant == 1000 * statements_left + turns_left

\* C8: once a read has found the stream at its end the run writes no file,
\* goes on until it ends in an error, and does end: each step brings it
\* nearer its end, no loop turns for ever.  The file is opened at most
\* once, and only by a run that ends without an error.
C8_Truncated ==
  /\ [](eof => pc \notin {"write", "done"} /\ outfile.opened = 0)
  /\ [](eof /\ pc # "raised" => ENABLED Next)
  /\ [](outfile.opened <= 1 /\ (outfile.opened = 1 => pc = "done"))
  /\ [](turns_left >= 0 /\ turns_left < 1000)
  /\ [][variant' < variant]_vars

\* C8's case: the bits run out in inflate after some bytes were decoded
C8_Witness ==
  /\ eof
  /\ pc = "raised"
  /\ error = "TypeError"
  /\ uncompressed_data # <<>>
  /\ outfile.opened = 0

\* C9: for code lengths that are over-subscribed, construct_huffman returns
\* an error, not a code.
C9_Rejected ==
  pc = "returned" /\ ~not_oversubscribed(call.code_lengths) => ret.exc # ""

\* C10: with a prefix code and a stream that starts with the code of a
\* symbol, decode_huf returns that symbol and leaves the stream right after
\* the code; to_number(stream, n) then takes n bits and returns them with
\* the earliest bit lowest; the stream never moves back.
C10_DecodeCursor ==
  /\ pc = "to_number" /\ is_prefix_code(huf_code) =>
       \A key \in DOMAIN huf_code :
         code_at(gz, ret.start, key)
           => ret.val = huf_code[key] /\ pos = ret.start + key[1]
  /\ pc = "returned" /\ ret.exc = "" =>
       /\ pos = ret.start + ret.count
       /\ ret.val < pow2(ret.count)
       /\ \A i \in 0..(ret.count - 1) :
            bitstream(gz, ret.start + i) = (ret.val \div pow2(i)) % 2
  /\ pc # "decode_huf" => ret.start <= pos

\* C10's case: the byte 01110 read from bit 1: the code 11 of a symbol, then
\* to_number of 2 bits reads the bits 1, 0 as the number 1
C10_Witness ==
  /\ pc = "returned"
  /\ gz = <<14>>
  /\ is_prefix_code(huf_code)
  /\ <<2, 3>> \in DOMAIN huf_code
  /\ ret = [start |-> 3, count |-> 2, exc |-> "", val |-> 1]

====
